---- MODULE Spec2Model ----
(***************************************************************************)
(* Governance & Internal Audit API (src/main.py, src/schemas.py).          *)
(*                                                                         *)
(* State: the "user", "project" and "scorecardmetric" collections of the   *)
(* record store, the wall clock, the register requests in flight, the      *)
(* tokens clients hold, and the last response sent.                        *)
(*                                                                         *)
(* register is modelled at the granularity of its store calls (the email   *)
(* pre-check, the any-user query that decides the role, the insert), since *)
(* FastAPI runs sync handlers on a thread pool and other requests' store   *)
(* calls run in between.  login makes one store call.  A protected handler *)
(* makes two (the user lookup of get_current_user, then its own insert or  *)
(* query); user records are only ever appended, so the first record with a *)
(* given email never changes once it exists and the two calls commute with *)
(* every other request's step: each protected handler is one action.       *)
(*                                                                         *)
(* The other ten protected endpoints (actions, timeline, tasks, comments,  *)
(* documents) repeat add_metric / get_metrics on their own collection and  *)
(* are not modelled.                                                       *)
(***************************************************************************)
EXTENDS Integers, Sequences, FiniteSets, TLC

VARIABLES users, projects, metrics, reg, now, held, audit, last

vars == <<users, projects, metrics, reg, now, held, audit, last>>

(***************************************************************************)
(* Bounds of the model.                                                    *)
(***************************************************************************)
MaxUsers == 2
MaxProjects == 2
MaxMetrics == 1
MaxHeld == 1
\* ticks of the clock per second: the clock has sub-second resolution
TicksPerSecond == 2
\* the token lifetime in seconds; stands for ACCESS_TOKEN_EXPIRE_MINUTES * 60
\* (src/main.py:17), scaled down so that expiry is reached within MaxTime
LifetimeSeconds == 1

Procs == {1, 2}
Emails == {"ann@x", "bob@x"}
Passwords == {"pw1", "pw2"}
None == "None"

(***************************************************************************)
(* Configuration and library behaviour the handlers rest on.               *)
(***************************************************************************)
JWT_SECRET == "dev-secret-change"
JWT_ALGO == "HS256"
ForgedKey == "attacker-key"

\* timedelta(minutes=ACCESS_TOKEN_EXPIRE_MINUTES), in clock ticks
ACCESS_TOKEN_EXPIRE == LifetimeSeconds * TicksPerSecond

\* the clock runs until just past the lifetime of a token issued at 0
MaxTime == ACCESS_TOKEN_EXPIRE + 1

\* passlib bcrypt: the hash carries its salt; the digest is a function of
\* salt and plaintext
Salts == {"s1", "s2"}
Digest(salt, password) == <<"bcrypt", salt, password>>

hash_password(password, salt) == [salt |-> salt, digest |-> Digest(salt, password)]

verify_password(password, hashed) == hashed.digest = Digest(hashed.salt, password)

\* HMAC-SHA256 over header and payload: a function of the key and the claims
Sign(key, sub, exp) == [alg |-> JWT_ALGO, key |-> key, sub |-> sub, exp |-> exp]
NoSig == [alg |-> "", key |-> "", sub |-> "", exp |-> 0]

(***************************************************************************)
(* Header text.  A header is a sequence of pieces: a space, a run of       *)
(* characters without a space, or an encoded token (which holds no space). *)
(***************************************************************************)
SP == [k |-> "sp", text |-> " ", sub |-> "", exp |-> 0, sig |-> NoSig]
Txt(s) == [k |-> "txt", text |-> s, sub |-> "", exp |-> 0, sig |-> NoSig]
Jwt(sub, exp, sig) == [k |-> "jwt", text |-> "", sub |-> sub, exp |-> exp, sig |-> sig]
NoToken == Txt("")

\* the Authorization header of a request: absent, or its text
NoHeader == [present |-> FALSE, text |-> <<>>]
Header(text) == [present |-> TRUE, text |-> text]

\* jwt.encode: a datetime "exp" is written as whole seconds since the epoch
\* (timegm(utctimetuple()) drops the sub-second part)
jwt_encode(sub, expire, key) ==
    LET exp == expire \div TicksPerSecond
    IN  Jwt(sub, exp, Sign(key, sub, exp))

\* expires_delta is in clock ticks, 0 for None ("expires_delta or ..." takes
\* the default for None and for a zero timedelta alike)
create_access_token(sub, expires_delta, t) ==
    LET delta == IF expires_delta = 0 THEN ACCESS_TOKEN_EXPIRE ELSE expires_delta
    IN  jwt_encode(sub, t + delta, JWT_SECRET)

\* as jwt_decode, with a token still good at the second it expires
jwt_decode_late(word, key, t) ==
    IF Len(word) # 1 \/ word[1].k # "jwt"
        THEN [ok |-> FALSE, sub |-> "", err |-> "Not enough segments"]
    ELSE IF word[1].sig # Sign(key, word[1].sub, word[1].exp)
        THEN [ok |-> FALSE, sub |-> "", err |-> "Signature verification failed"]
    ELSE IF word[1].exp * TicksPerSecond < t
        THEN [ok |-> FALSE, sub |-> "", err |-> "Signature has expired"]
    ELSE [ok |-> TRUE, sub |-> word[1].sub, err |-> ""]

\* as jwt_decode, with the signature left unverified
jwt_decode_unverified(word, key, t) ==
    IF Len(word) # 1 \/ word[1].k # "jwt"
        THEN [ok |-> FALSE, sub |-> "", err |-> "Not enough segments"]
    ELSE IF word[1].exp * TicksPerSecond <= t
        THEN [ok |-> FALSE, sub |-> "", err |-> "Signature has expired"]
    ELSE [ok |-> TRUE, sub |-> word[1].sub, err |-> ""]

\* jwt.decode(token, key, algorithms=[JWT_ALGO]) at clock t: the payload, or
\* the text of the exception raised.  The signature is checked before the
\* claims; "exp" is compared to the float timestamp, with no leeway: the
\* token is expired once exp <= now (PyJWT 2, the one whose encode returns
\* the str that create_access_token declares).
jwt_decode(word, key, t) ==
    IF Len(word) # 1 \/ word[1].k # "jwt"
        THEN [ok |-> FALSE, sub |-> "", err |-> "Not enough segments"]
    ELSE IF word[1].sig # Sign(key, word[1].sub, word[1].exp)
        THEN [ok |-> FALSE, sub |-> "", err |-> "Signature verification failed"]
    ELSE IF word[1].exp * TicksPerSecond <= t
        THEN [ok |-> FALSE, sub |-> "", err |-> "Signature has expired"]
    ELSE [ok |-> TRUE, sub |-> word[1].sub, err |-> ""]

\* str.split(" "): the pieces between spaces, empty ones included
RECURSIVE Split(_)
Split(h) ==
    IF h = <<>> THEN << <<>> >>
    ELSE LET rest == Split(Tail(h))
         IN  IF Head(h).k = "sp" THEN << <<>> >> \o rest
             ELSE << <<Head(h)>> \o Head(rest) >> \o Tail(rest)

\* str.lower() of the texts a scheme is made of
LowerText(s) ==
    CASE s = "Bearer" -> "bearer"
      [] s = "BEARER" -> "bearer"
      [] s = "Token" -> "token"
      [] OTHER -> s

Lower_CaseKept(word) == [i \in 1..Len(word) |-> IF word[i].k = "txt" THEN word[i].text ELSE "?"]

\* scheme.lower(), src/main.py:65
Lower(word) == [i \in 1..Len(word) |-> IF word[i].k = "txt" THEN LowerText(word[i].text) ELSE "?"]

(***************************************************************************)
(* The record store (database.py: create_document, get_documents).         *)
(***************************************************************************)
Str(id) == <<"str", id>>

Matches(doc, filter) == \A f \in DOMAIN filter : doc[f] = filter[f]

Take(s, n) == IF Len(s) <= n THEN s ELSE SubSeq(s, 1, n)

\* insert(collection, record) -> id: the record is stored under a fresh id
NewId(kind, coll) == <<kind, Len(coll) + 1>>

create_document(coll, kind, doc) == Append(coll, [id |-> NewId(kind, coll)] @@ doc)

\* query(collection, equalityFilter, limit?) -> the matching records
get_documents(coll, filter, limit) ==
    LET found == SelectSeq(coll, LAMBDA d : Matches(d, filter))
    IN  IF limit = 0 THEN found ELSE Take(found, limit)

(***************************************************************************)
(* Schemas.                                                                *)
(***************************************************************************)
LocalPart(email) ==
    CASE email = "ann@x" -> "ann"
      [] email = "bob@x" -> "bob"
      [] OTHER -> email

User(name, email, hashed, role) ==
    [name |-> name, email |-> email, hashed_password |-> hashed,
     role |-> role, is_active |-> TRUE]

Project(name, owner_id) ==
    [name |-> name, description |-> None, owner_id |-> owner_id, status |-> "active"]

ScorecardMetric(project_id, title) ==
    [project_id |-> project_id, title |-> title, description |-> None,
     target_value |-> 0, current_value |-> 0, unit |-> "%", due_date |-> None]

NoDoc == User("", "", hash_password("", ""), "")
NoUser == [id |-> <<"user", 0>>] @@ NoDoc

(***************************************************************************)
(* get_current_user: the user record, or the 401 raised.                   *)
(***************************************************************************)
Missing == "Missing Authorization header"
InvalidPrefix == "Invalid token: "

Unauthorized(prefix, reason) ==
    [ok |-> FALSE, user |-> NoUser, status |-> 401, detail |-> <<prefix, reason>>]

get_current_user(authorization, us, t) ==
    IF ~authorization.present \/ authorization.text = <<>>
        THEN Unauthorized(Missing, "")
    ELSE LET parts == Split(authorization.text)
         IN  IF Len(parts) < 2
                 THEN Unauthorized(InvalidPrefix, "not enough values to unpack")
             ELSE IF Len(parts) > 2
                 THEN Unauthorized(InvalidPrefix, "too many values to unpack")
             ELSE IF Lower(parts[1]) # <<"bearer">>
                 THEN Unauthorized(InvalidPrefix, "Invalid auth scheme")
             ELSE LET payload == jwt_decode(parts[2], JWT_SECRET, t)
                  IN  IF ~payload.ok
                          THEN Unauthorized(InvalidPrefix, payload.err)
                      ELSE IF payload.sub = ""
                          THEN Unauthorized(InvalidPrefix, "Invalid token")
                      ELSE LET found == get_documents(us, [email |-> payload.sub], 1)
                           IN  IF found = <<>>
                                   THEN Unauthorized(InvalidPrefix, "User not found")
                               ELSE [ok |-> TRUE, user |-> found[1], status |-> 200,
                                     detail |-> <<"", "">>]

(***************************************************************************)
(* Requests.                                                               *)
(***************************************************************************)
Idle == [pc |-> "idle", email |-> "", password |-> "", name |-> None, user |-> NoDoc]

Response(op, step, email, password, header, pid, status, detail, token, user, body) ==
    [op |-> op, step |-> step, email |-> email, password |-> password, header |-> header,
     pid |-> pid, status |-> status, detail |-> detail, token |-> token,
     user |-> user, body |-> body]

NoPid == Str(<<"project", 0>>)

\* the tokens a client holds after keeping one more: at most MaxHeld
Wallet(h, token, t) ==
    LET new == [tok |-> token, iat |-> t]
    IN  IF Cardinality(h \cup {new}) <= MaxHeld THEN {h \cup {new}}
        ELSE {(h \ {old}) \cup {new} : old \in h}

Init ==
    /\ users = <<>>
    /\ projects = <<>>
    /\ metrics = <<>>
    /\ reg = [p \in Procs |-> Idle]
    /\ now = 0
    /\ held = {}
    /\ audit = {}
    /\ last = Response("start", "", "", "", NoHeader, NoPid, 0, <<"", "">>, NoToken, NoUser, <<>>)

InFlight == Cardinality({p \in Procs : reg[p].pc # "idle"})

EmailTaken_ByName(us, email) == get_documents(us, [name |-> email], 1) # <<>>

\* src/main.py:99-100
EmailTaken(us, email) == get_documents(us, [email |-> email], 1) # <<>>

\* register, src/main.py:99-101: the email pre-check
RegisterCheck(p, email, password, name) ==
    /\ reg[p].pc = "idle"
    /\ Len(users) + InFlight < MaxUsers
    /\ LET existing == EmailTaken(users, email)
       IN  IF existing
               THEN /\ last' = Response("register", "check", email, password, NoHeader, NoPid, 400,
                                        <<"Email already registered", "">>, NoToken, NoUser, <<>>)
                    /\ reg' = reg
               ELSE /\ last' = Response("register", "check", email, password, NoHeader, NoPid, 0,
                                        <<"", "">>, NoToken, NoUser, <<>>)
                    /\ reg' = [reg EXCEPT ![p] = [pc |-> "role", email |-> email,
                                                  password |-> password, name |-> name,
                                                  user |-> NoDoc]]
    /\ UNCHANGED <<users, projects, metrics, now, held, audit>>

\* register, src/main.py:102-103: the hash, and the role from the any-user query
RegisterRole(p, salt) ==
    /\ reg[p].pc = "role"
    /\ LET r == reg[p]
           hashed == hash_password(r.password, salt)
           role == IF get_documents(users, <<>>, 0) = <<>> THEN "admin" ELSE "member"
           name == IF r.name # None THEN r.name ELSE LocalPart(r.email)
       IN  /\ reg' = [reg EXCEPT ![p] = [r EXCEPT !.pc = "insert",
                                                  !.user = User(name, r.email, hashed, role)]]
           /\ last' = Response("register", "role", r.email, r.password, NoHeader, NoPid, 0,
                               <<"", "">>, NoToken, NoUser, <<>>)
    /\ UNCHANGED <<users, projects, metrics, now, held, audit>>

\* register, src/main.py:104-106: the insert, the token and the response
RegisterInsert(p) ==
    /\ reg[p].pc = "insert"
    /\ LET r == reg[p]
           token == create_access_token(r.email, 0, now)
       IN  /\ users' = create_document(users, "user", r.user)
           /\ last' = Response("register", "insert", r.email, r.password, NoHeader, NoPid, 200,
                               <<"", "">>, token, NoUser, <<>>)
    /\ reg' = [reg EXCEPT ![p] = Idle]
    /\ UNCHANGED <<projects, metrics, now, held, audit>>

Authenticates_AnyPassword(found, password) == found # <<>>

\* src/main.py:112-116: a record was found and the password verifies against it
Authenticates(found, password) ==
    found # <<>> /\ verify_password(password, found[1].hashed_password)

\* login, src/main.py:109-118
Login(email, password) ==
    /\ LET found == get_documents(users, [email |-> email], 1)
       IN  IF ~Authenticates(found, password)
               THEN last' = Response("login", "", email, password, NoHeader, NoPid, 401,
                                     <<"Invalid credentials", "">>, NoToken, NoUser, <<>>)
               ELSE last' = Response("login", "", email, password, NoHeader, NoPid, 200,
                                     <<"", "">>, create_access_token(email, 0, now), NoUser, <<>>)
    /\ UNCHANGED <<users, projects, metrics, reg, now, held, audit>>

\* the client keeps the token of the response it was just sent (the clock
\* has not moved since: iat is the time create_access_token read)
Keep ==
    /\ last.token # NoToken
    /\ last.op \in {"register", "login"}
    /\ held' \in Wallet(held, last.token, now)
    /\ held' # held
    /\ last' = Response("keep", "", "", "", NoHeader, NoPid, 0, <<"", "">>, NoToken, NoUser, <<>>)
    /\ UNCHANGED <<users, projects, metrics, reg, now, audit>>

Tick ==
    /\ now < MaxTime
    /\ now' = now + 1
    /\ last' = Response("tick", "", "", "", NoHeader, NoPid, 0, <<"", "">>, NoToken, NoUser, <<>>)
    /\ UNCHANGED <<users, projects, metrics, reg, held, audit>>

(***************************************************************************)
(* What a client can put in the Authorization header: a token it holds, a  *)
(* held token with its subject rewritten, a token signed with another key, *)
(* or text that is no token; under a scheme, well-formed or not.           *)
(***************************************************************************)
Schemes == {"Bearer", "bearer", "BEARER", "Token"}

HeldTokens == {h.tok : h \in held}

Tampered == {Jwt(e, t.exp, t.sig) : e \in Emails, t \in HeldTokens} \ HeldTokens

Forged == {jwt_encode("ann@x", MaxTime + TicksPerSecond, ForgedKey)}

Presentable == HeldTokens \cup Tampered \cup Forged \cup {Txt("abc")}

Headers ==
    {NoHeader, Header(<<>>), Header(<<Txt("Bearer")>>)}
    \cup {Header(<<Txt(s), SP, t>>) : s \in Schemes, t \in HeldTokens}
    \cup {Header(<<Txt("Bearer"), SP, t>>) : t \in Presentable}
    \cup {Header(<<Txt("Bearer"), SP, SP, t>>) : t \in HeldTokens}
    \cup {Header(<<Txt("Bearer"), t>>) : t \in Forged}
    \cup {Header(<<Txt("Bearer"), SP, t, SP, Txt("x")>>) : t \in Forged}

ProjectNames == {"Audit Q1"}
Titles == {"Coverage"}
UserIds == {<<"user", n>> : n \in 1..MaxUsers}
ProjectIds == {Str(<<"project", n>>) : n \in 1..MaxProjects}

\* the request bodies: ProjectIn has no owner field, so one a client sends
\* along is dropped by the schema
ProjectBodies == [name : ProjectNames, owner_id : {Str(u) : u \in UserIds}]

Rejected(op, header, pid, auth) ==
    /\ last' = Response(op, "", "", "", header, pid, auth.status, auth.detail, NoToken, NoUser, <<>>)
    /\ UNCHANGED <<users, projects, metrics, reg, now, held, audit>>

NewProject_ClientOwner(data, current_user) == Project(data.name, data.owner_id)

\* src/main.py:130
NewProject(data, current_user) == Project(data.name, Str(current_user.id))

\* create_project, src/main.py:128-132
CreateProject(header, data) ==
    LET auth == get_current_user(header, users, now)
    IN  IF ~auth.ok THEN Rejected("create_project", header, NoPid, auth)
        ELSE /\ Len(projects) < MaxProjects
             /\ projects' = create_document(projects, "project", NewProject(data, auth.user))
             /\ audit' = audit \cup {[doc |-> NewId("project", projects), by |-> auth.user.id]}
             /\ last' = Response("create_project", "", "", "", header, NoPid, 200, <<"", "">>, NoToken,
                                 auth.user, <<projects'[Len(projects')]>>)
             /\ UNCHANGED <<users, metrics, reg, now, held>>

\* src/main.py:137
OwnProjects(ps, current_user) == get_documents(ps, [owner_id |-> Str(current_user.id)], 0)

\* list_projects, src/main.py:135-138
ListProjects(header) ==
    LET auth == get_current_user(header, users, now)
    IN  IF ~auth.ok THEN Rejected("list_projects", header, NoPid, auth)
        ELSE /\ last' = Response("list_projects", "", "", "", header, NoPid, 200, <<"", "">>, NoToken,
                                 auth.user, OwnProjects(projects, auth.user))
             /\ UNCHANGED <<users, projects, metrics, reg, now, held, audit>>

\* add_metric, src/main.py:152-156
AddMetric(header, pid, title) ==
    LET auth == get_current_user(header, users, now)
    IN  IF ~auth.ok THEN Rejected("add_metric", header, pid, auth)
        ELSE /\ Len(metrics) < MaxMetrics
             /\ metrics' = create_document(metrics, "scorecardmetric", ScorecardMetric(pid, title))
             /\ audit' = audit \cup {[doc |-> NewId("scorecardmetric", metrics), by |-> auth.user.id]}
             /\ last' = Response("add_metric", "", "", "", header, pid, 200, <<"", "">>, NoToken,
                                 auth.user, <<metrics'[Len(metrics')]>>)
             /\ UNCHANGED <<users, projects, reg, now, held>>

\* as MetricsOf, scoped to the projects the caller owns
MetricsOf_Owned(ms, project_id, current_user) ==
    IF \E i \in 1..Len(projects) : /\ Str(projects[i].id) = project_id
                                    /\ projects[i].owner_id = Str(current_user.id)
        THEN get_documents(ms, [project_id |-> project_id], 0)
        ELSE <<>>

\* src/main.py:161
MetricsOf(ms, project_id, current_user) == get_documents(ms, [project_id |-> project_id], 0)

\* get_metrics, src/main.py:159-162
GetMetrics(header, pid) ==
    LET auth == get_current_user(header, users, now)
    IN  IF ~auth.ok THEN Rejected("get_metrics", header, pid, auth)
        ELSE /\ last' = Response("get_metrics", "", "", "", header, pid, 200, <<"", "">>, NoToken,
                                 auth.user, MetricsOf(metrics, pid, auth.user))
             /\ UNCHANGED <<users, projects, metrics, reg, now, held, audit>>

WellFormed == {Header(<<Txt("Bearer"), SP, t>>) : t \in HeldTokens}

(***************************************************************************)
(* Specifications.  The handlers of one family read and write only their   *)
(* own collection and "user", so each family is checked under the requests *)
(* that can change what it reads.                                          *)
(***************************************************************************)
\* the account endpoints, two register requests interleaving
NextAccounts ==
    \/ \E p \in Procs, e \in Emails, pw \in Passwords : RegisterCheck(p, e, pw, None)
    \/ \E p \in Procs, salt \in Salts : RegisterRole(p, salt)
    \/ \E p \in Procs : RegisterInsert(p)
    \/ \E e \in Emails, pw \in Passwords : Login(e, pw)

SpecAccounts == Init /\ [][NextAccounts]_vars

\* accounts made one at a time, by one client with one password and salt
Enrol ==
    \/ \E e \in Emails : RegisterCheck(1, e, "pw1", None)
    \/ RegisterRole(1, "s1")
    \/ RegisterInsert(1)
    \/ \E e \in Emails : Login(e, "pw1")
    \/ Keep

\* the access gate: every header against the clock
NextAuth ==
    \/ Enrol
    \/ Tick
    \/ \E h \in Headers, t \in Titles : AddMetric(h, Str(<<"project", 1>>), t)
    \/ \E h \in Headers : GetMetrics(h, Str(<<"project", 1>>))

SpecAuth == Init /\ [][NextAuth]_vars

NextProjects ==
    \/ NextAccounts
    \/ Keep
    \/ \E h \in WellFormed \cup {NoHeader}, d \in ProjectBodies : CreateProject(h, d)
    \/ \E h \in WellFormed \cup {NoHeader} : ListProjects(h)

SpecProjects == Init /\ [][NextProjects]_vars

NextMetrics ==
    \/ Enrol
    \/ \E h \in WellFormed \cup {NoHeader}, d \in ProjectBodies : CreateProject(h, d)
    \/ \E h \in WellFormed \cup {NoHeader}, pid \in ProjectIds, t \in Titles : AddMetric(h, pid, t)
    \/ \E h \in WellFormed \cup {NoHeader}, pid \in ProjectIds : GetMetrics(h, pid)

SpecMetrics == Init /\ [][NextMetrics]_vars

(***************************************************************************)
(* Properties of the account endpoints.                                    *)
(***************************************************************************)
Range(seq) == {seq[i] : i \in 1..Len(seq)}

Stored(email) == \E u \in Range(users) : u.email = email

CollectionsUnchanged == users' = users /\ projects' = projects /\ metrics' = metrics

\* C2: no two user records have the same email, whatever the interleaving of
\* the register requests' store calls.
C2_EmailUnique ==
    \A i, j \in 1..Len(users) : users[i].email = users[j].email => i = j

\* C3: with at least one user, the earliest-inserted record is the one and
\* only admin and every later one is a member.
C3_FirstAdminOnly ==
    \A i \in 1..Len(users) : users[i].role = (IF i = 1 THEN "admin" ELSE "member")

\* C4: a register request that starts (runs its pre-check) while a record
\* with its email is stored answers 400 "Email already registered", issues no
\* token, is over (nothing of it is left in flight to insert later) and leaves
\* every collection as it was.
C4_DuplicateRejected ==
    [][(last'.op = "register" /\ last'.step = "check" /\ Stored(last'.email))
         => /\ last'.status = 400
            /\ last'.detail = <<"Email already registered", "">>
            /\ last'.token = NoToken
            /\ reg' = reg
            /\ CollectionsUnchanged]_vars

C4_Witness ==
    /\ last.op = "register" /\ last.step = "check" /\ last.status = 400
    /\ Stored(last.email)
    /\ \E u \in Range(users) : u.email = last.email /\ ~verify_password(last.password, u.hashed_password)

\* C5: a login with an email and password that a successful register stored
\* (a record with that email and the hash of that password) succeeds with a
\* token that verifies and whose subject is the email.
C5_RegisteredCanLogin ==
    (/\ last.op = "login"
     /\ \E u \in Range(users) : /\ u.email = last.email
                                /\ verify_password(last.password, u.hashed_password))
        => /\ last.status = 200
           /\ jwt_decode(<<last.token>>, JWT_SECRET, now).ok
           /\ jwt_decode(<<last.token>>, JWT_SECRET, now).sub = last.email

\* the record a query by email with limit 1 finds: the earliest stored
FirstWith(email) ==
    LET idx == {i \in 1..Len(users) : users[i].email = email}
    IN  users[CHOOSE i \in idx : \A j \in idx : i <= j]

\* C10: a login with an email that has no record, or with a password that
\* does not verify against the hash of the record found for the email,
\* answers 401 "Invalid credentials" in both cases, issues no token and
\* leaves every collection as it was.
C10_BadLoginRejected ==
    [][(/\ last'.op = "login"
        /\ \/ ~Stored(last'.email)
           \/ ~verify_password(last'.password, FirstWith(last'.email).hashed_password))
         => /\ last'.status = 401
            /\ last'.detail = <<"Invalid credentials", "">>
            /\ last'.token = NoToken
            /\ reg' = reg
            /\ CollectionsUnchanged]_vars

\* both failures have been answered, and the answers differ in nothing but the
\* request they echo
C10_Witness ==
    /\ last.op = "login" /\ last.status = 401
    /\ Stored(last.email)
    /\ ~verify_password(last.password, FirstWith(last.email).hashed_password)

(***************************************************************************)
(* Properties of the project and metric endpoints.                         *)
(***************************************************************************)
\* the user a stored record was created by: the one get_current_user gave
\* the request that inserted it
CreatedBy(doc, user) == [doc |-> doc.id, by |-> user.id] \in audit

\* C1: list_projects by U returns exactly the projects created by requests
\* authenticated as U, each once and each stored with owner_id = U's id; so a
\* project U created is never in another user's listing.
C1_ListingIsOwnProjects ==
    /\ \A p \in Range(projects), u \in Range(users) :
           CreatedBy(p, u) => p.owner_id = Str(u.id)
    /\ (last.op = "list_projects" /\ last.status = 200)
         => /\ last.user \in Range(users)
            /\ Range(last.body) = {p \in Range(projects) : CreatedBy(p, last.user)}
            /\ Len(last.body) = Cardinality(Range(last.body))
            /\ \A p \in Range(last.body) : p.owner_id = Str(last.user.id)

\* U lists and gets its own project while another user's project is stored
C1_Witness ==
    /\ last.op = "list_projects" /\ last.status = 200
    /\ Len(last.body) = 1
    /\ \E p \in Range(projects) : ~CreatedBy(p, last.user) /\ p.owner_id # Str(last.user.id)

\* C9: get_metrics(P) returns every stored metric with project_id P, whoever
\* added it, and gives every user the same result.
C9_MetricsUnscoped ==
    /\ \A pid \in ProjectIds, u, v \in Range(users) :
           MetricsOf(metrics, pid, u) = MetricsOf(metrics, pid, v)
    /\ (last.op = "get_metrics" /\ last.status = 200)
         => Range(last.body) = {m \in Range(metrics) : m.project_id = last.pid}

\* B reads a metric that A added under a project that B does not own
C9_Witness ==
    /\ last.op = "get_metrics" /\ last.status = 200
    /\ \E m \in Range(last.body) : ~CreatedBy(m, last.user)
    /\ \E p \in Range(projects) : Str(p.id) = last.pid /\ p.owner_id # Str(last.user.id)

(***************************************************************************)
(* Properties of the tokens and of the access gate.                        *)
(***************************************************************************)
ProtectedOps == {"create_project", "list_projects", "add_metric", "get_metrics"}

Verified(h) == jwt_decode(<<h.tok>>, JWT_SECRET, now)

\* C6 as stated: a token issued at t0 verifies to its subject at every time
\* before t0 + ttl and is rejected at every time after t0 + ttl.
C6_GoodUntilLifetime ==
    \A h \in held :
        /\ now < h.iat + ACCESS_TOKEN_EXPIRE
             => Verified(h).ok /\ Verified(h).sub = h.tok.sub
        /\ now > h.iat + ACCESS_TOKEN_EXPIRE => ~Verified(h).ok

\* t0 + ttl cut down to a whole second, in clock ticks
ExpiryOf(h) == ((h.iat + ACCESS_TOKEN_EXPIRE) \div TicksPerSecond) * TicksPerSecond

\* C6, amended: the expiry a token carries is t0 + ttl cut down to the whole
\* second; the token verifies to its subject at every time before that second
\* and is rejected from that second on, so at every time after t0 + ttl; the
\* gate serves and refuses a request that carries it accordingly.
C6_GoodUntilWholeSecond ==
    \A h \in held :
        /\ h.tok.sig = Sign(JWT_SECRET, h.tok.sub, h.tok.exp)
        /\ ExpiryOf(h) <= h.iat + ACCESS_TOKEN_EXPIRE
        /\ now < ExpiryOf(h) => Verified(h).ok /\ Verified(h).sub = h.tok.sub
        /\ now >= ExpiryOf(h) => ~Verified(h).ok
        /\ (last.op \in ProtectedOps /\ last.header = Header(<<Txt("Bearer"), SP, h.tok>>))
             => IF now < ExpiryOf(h)
                    THEN last.status = 200 /\ last.user.email = h.tok.sub
                    ELSE last.status = 401 /\ last.detail = <<InvalidPrefix, "Signature has expired">>

\* a token is rejected in the last fraction of a second of its lifetime
C6_Witness ==
    \E h \in held : /\ now >= ExpiryOf(h)
                    /\ now < h.iat + ACCESS_TOKEN_EXPIRE
                    /\ ~Verified(h).ok

Spaces(text) == Cardinality({i \in 1..Len(text) : text[i].k = "sp"})

\* the header is a scheme, one space and a token, the scheme "bearer" in any
\* of the cases sent
BearerForm(h) ==
    /\ h.present /\ Len(h.text) = 3
    /\ h.text[1].k = "txt" /\ h.text[1].text \in {"Bearer", "bearer", "BEARER"}
    /\ h.text[2].k = "sp"
    /\ h.text[3].k = "jwt"

\* its token is signed with the secret and not expired at clock t
GoodToken(h, t) ==
    /\ h.text[3].sig = Sign(JWT_SECRET, h.text[3].sub, h.text[3].exp)
    /\ h.text[3].exp * TicksPerSecond > t

Admissible(h, us, t) ==
    /\ BearerForm(h)
    /\ GoodToken(h, t)
    /\ \E u \in Range(us) : u.email = h.text[3].sub

\* C7: a protected request is served for a user only if its header is
\* "Bearer <token>" with a token that is validly signed, unexpired and whose
\* subject is the email of a stored user, and that user is a stored record
\* with that email; every other request ends with 401, returns nothing and
\* stores nothing.
C7_GateAdmitsOnlyValid ==
    [][last'.op \in ProtectedOps =>
         /\ last'.status = 200
              => /\ Admissible(last'.header, users, now)
                 /\ last'.user \in Range(users)
                 /\ last'.user.email = last'.header.text[3].sub
         /\ ~Admissible(last'.header, users, now)
              => /\ last'.status = 401
                 /\ last'.body = <<>>
                 /\ last'.user = NoUser
                 /\ CollectionsUnchanged /\ audit' = audit]_vars

\* an insert is refused to a held token that has expired
C7_Witness ==
    /\ last.op = "add_metric" /\ last.status = 401
    /\ BearerForm(last.header)
    /\ last.header.text[3] \in HeldTokens
    /\ ~GoodToken(last.header, now)
    /\ metrics = <<>>

\* the scheme of a header: its text before the first space
Scheme(text) ==
    LET sp == {i \in 1..Len(text) : text[i].k = "sp"}
        n == IF sp = {} THEN Len(text) ELSE (CHOOSE i \in sp : \A j \in sp : i <= j) - 1
    IN  SubSeq(text, 1, n)

\* C8: on a protected endpoint an absent or empty header gets 401 "Missing
\* Authorization header"; a header that does not split on a space into
\* exactly two parts, or whose scheme is not "bearer" in any case, gets 401
\* with a detail that begins "Invalid token: "; "Bearer", "bearer" and
\* "BEARER" are accepted as the scheme.
C8_HeaderErrors ==
    last.op \in ProtectedOps =>
        LET h == last.header
        IN  /\ (~h.present \/ h.text = <<>>)
                 => last.status = 401 /\ last.detail = <<Missing, "">>
            /\ (/\ h.present /\ h.text # <<>>
                /\ \/ Spaces(h.text) # 1
                   \/ Scheme(h.text) \notin {<<Txt(t)>> : t \in {"Bearer", "bearer", "BEARER"}})
                 => last.status = 401 /\ last.detail[1] = InvalidPrefix
            /\ Admissible(h, users, now) => last.status = 200

\* "Token <a good token>" is refused, with the invalid-token detail
C8_Witness ==
    /\ last.op \in ProtectedOps /\ last.status = 401
    /\ last.detail[1] = InvalidPrefix
    /\ last.header.present /\ Len(last.header.text) = 3
    /\ last.header.text[1] = Txt("Token")
    /\ last.header.text[3] \in HeldTokens
    /\ jwt_decode(<<last.header.text[3]>>, JWT_SECRET, now).ok
====
